---- MODULE Spec2Model ----
(***************************************************************************)
(* The Resilient Generation Orchestrator of podcast_pipeline:              *)
(* OllamaClient.generate (failover over backends, endpoints, models and    *)
(* retries, with a per-model cooldown map) and                             *)
(* Summarizer.polish_transcript_chunked: its split loop, its generate      *)
(* call per chunk and its reassembly call.                                 *)
(*                                                                         *)
(* One step of the model is one observable operation of generate: the      *)
(* candidate selection, the reset decision, one reachability probe, one    *)
(* local generation attempt, one hosted generation attempt.  The loop      *)
(* bookkeeping that follows an operation (advance to the next retry,       *)
(* model, endpoint or backend, or return) is part of that operation's      *)
(* step.                                                                   *)
(***************************************************************************)
EXTENDS Integers, Sequences, FiniteSets, TLC

(***************************************************************************)
(* Bounds of the model.                                                    *)
(***************************************************************************)
\* retry_count arguments range over 0..MaxRetry (the default is 2)
MaxRetry == 2
\* the clock runs from 0 to MaxHalfPeriods half cooldown periods
MaxHalfPeriods == 2
\* transcripts have 0..MaxLen characters, chunk_size is 0..MaxChunkSize and
\* overlap is -1..MaxOverlap
MaxLen == 9
MaxChunkSize == 4
MaxOverlap == 4
\* the split loop is followed for MaxSpans iterations, more than any split
\* that ends needs
MaxSpans == MaxLen + 2
\* the transcripts whose chunks are polished have 0..MaxPolishLen characters
\* and are split with a chunk_size of 1..MaxPolishChunk
MaxPolishLen == 3
MaxPolishChunk == 2
\* two invocations at once have a retry_count of 1..MaxConcurrentRetry
MaxConcurrentRetry == 1

(***************************************************************************)
(* Configuration and input domains.                                        *)
(***************************************************************************)
Models == {"A", "B"}
None == "None"
Callers == {1, 2}
SeqCallers == {1}

\* The configurations OllamaClient is constructed from, as __init__ reads
\* them: self.priority, self.local_models, <<self.local_primary_url,
\* self.local_fallback_url>> and self.cloud_enabled.
Config(p, ms, urls, cloud) ==
    [priority |-> p, local_models |-> ms, local_urls |-> urls,
     cloud_enabled |-> cloud]

\* Variant: an empty registry, with no backend, model or endpoint
EmptyConfig == Config(<<>>, <<>>, <<>>, FALSE)

\* config = {}: priority ['local', 'cloud'], one default model, both URLs the
\* same default, and the hosted backend disabled
DefaultConfig ==
    Config(<<"local", "cloud">>, <<"A">>, <<"http://h1", "http://h1">>, FALSE)

\* two models, two endpoints and the hosted backend enabled
FullConfig ==
    Config(<<"local", "cloud">>, <<"A", "B">>, <<"http://h1", "http://h2">>, TRUE)

\* one model, two endpoints and the hosted backend enabled
OneModelConfig ==
    Config(<<"local", "cloud">>, <<"A">>, <<"http://h1", "http://h2">>, TRUE)

Configs ==
    { DefaultConfig, FullConfig,
      Config(<<"cloud", "local">>, <<"B">>, <<"http://h1", "http://h2">>, TRUE),
      Config(<<"other", "cloud">>, <<"A">>, <<"http://h1", "http://h2">>, TRUE) }

\* self.cooldown_duration = 2 * 60 * 60
cooldown_duration == 2 * 60 * 60

\* How far the clock has moved when time.time() is read again: not at all,
\* by half a cooldown period, or by a whole one.  The clock never goes back.
ClockSteps == {0, cooldown_duration \div 2, cooldown_duration}
MaxClock == MaxHalfPeriods * (cooldown_duration \div 2)

(***************************************************************************)
(* The Generation Client's replies.  A reply is what the HTTP exchange     *)
(* produced; GenerateLocal and GenerateCloud turn it into an LLMResponse   *)
(* as _generate_local and _generate_cloud do.                              *)
(***************************************************************************)
\* an HTTP exchange: the status (0: no answer), the generated text the JSON
\* body carries (None: the field is missing) and what the raw body says
Reply(status, generated, text) ==
    [status |-> status, generated |-> generated, text |-> text]
LocalReplies ==
    { Reply(200, "text x", "json"), Reply(200, "text y", "json"),
      Reply(200, None, "json"),
      Reply(429, None, "plain"), Reply(500, None, "plain") }
CloudReplies ==
    { Reply(200, "text x", "json"), Reply(200, "text y", "json"),
      Reply(429, None, "plain"), Reply(500, None, "plain") }

\* more kinds of reply: also no local answer within the timeout, a local
\* error body that quotes the digits 429 under another status, and a hosted
\* reply without choices[0].message.content
AllLocalReplies ==
    { Reply(200, "text x", "json"), Reply(200, None, "json"),
      Reply(429, None, "plain"), Reply(500, None, "plain"),
      Reply(500, None, "mentions 429"), Reply(0, None, "none") }
AllCloudReplies ==
    { Reply(200, "text x", "json"), Reply(200, None, "json"),
      Reply(429, None, "plain"), Reply(500, None, "plain") }

NoError == <<>>
NoResult == [success |-> FALSE, content |-> None, model |-> None,
             source |-> None, error |-> NoError]

\* resp.ok
RespOk(reply) == reply.status >= 200 /\ reply.status < 400

\* f"HTTP {resp.status_code}: {resp.text[:200]}", or the timeout message
HttpError(reply, timeout_message) ==
    IF reply.status = 0 THEN <<timeout_message>>
    ELSE <<"HTTP", reply.status, reply.text>>

\* _generate_local: LLMResponse(success=True, content=data.get('response', ''),
\* model=model, source='local') or LLMResponse(success=False, error=...)
GenerateLocal(reply, model) ==
    IF RespOk(reply)
    THEN [success |-> TRUE,
          content |-> IF reply.generated = None THEN "" ELSE reply.generated,
          model |-> model, source |-> "local", error |-> NoError]
    ELSE [NoResult EXCEPT !.error = HttpError(reply, "local timeout")]

\* data['choices'][0]['message']['content'] on a body that lacks it: a
\* KeyError, which neither _generate_cloud nor generate catches
CloudRaises(reply) == RespOk(reply) /\ reply.generated = None

\* _generate_cloud, for an enabled hosted backend and a reply it can read
GenerateCloud(reply) ==
    IF RespOk(reply)
    THEN [success |-> TRUE, content |-> reply.generated, model |-> "cloud_model",
          source |-> "cloud", error |-> NoError]
    ELSE [NoResult EXCEPT !.error = HttpError(reply, "cloud timeout")]

\* Variant: the rate limit is never recognised
Never429(error) == FALSE

\* '429' in str(result.error): the status or the body text shows 429
Contains429(error) ==
    /\ Len(error) = 3
    /\ (error[2] = 429 \/ error[3] = "mentions 429")

VARIABLES
    priority,         \* self.priority
    local_models,     \* self.local_models
    local_urls,       \* <<self.local_primary_url, self.local_fallback_url>>
    cloud_enabled,    \* self.cloud_enabled
    model_cooldown,   \* self.model_cooldown: model -> cooldown_until
    now,              \* the wall clock, as last read by time.time()
    call,             \* call[c]: the frame of caller c's generate invocation
    hist,             \* hist[c]: what caller c's current invocation has done
    transcript,       \* polish_transcript_chunked: its argument transcript
    chunk_size,       \* its argument chunk_size
    overlap,          \* its argument overlap
    start,            \* its local start
    chunks,           \* its local chunks
    spans,            \* the (start, end) of each chunk appended (history)
    chunk_i,          \* its loop variable i of `for i, chunk in enumerate`
    polished_chunks,  \* its local polished_chunks
    merged,           \* its local merged
    calls,            \* the generate calls it has issued (history)
    polish_result,    \* the LLMResponse it returned
    polish_pc         \* where polish_transcript_chunked is

vars == <<priority, local_models, local_urls, cloud_enabled, model_cooldown,
          now, call, hist, transcript, chunk_size, overlap, start, chunks,
          spans, chunk_i, polished_chunks, merged, calls, polish_result,
          polish_pc>>
config == <<priority, local_models, local_urls, cloud_enabled>>
generation == <<config, model_cooldown, now, call, hist>>
chunking == <<transcript, chunk_size, overlap, start, chunks, spans, chunk_i,
              polished_chunks, merged, calls, polish_result, polish_pc>>

(***************************************************************************)
(* The Cooldown Tracker: the operations generate performs on               *)
(* self.model_cooldown.                                                    *)
(***************************************************************************)
NoCooldown == [m \in {} |-> 0]

\* self.model_cooldown.get(m, 0)
CooldownGet(cooldown, m) == IF m \in DOMAIN cooldown THEN cooldown[m] ELSE 0

\* Variant: `>` for `>=`
IsAvailableStrict(cooldown, m, t) == t > CooldownGet(cooldown, m)

\* current_time >= cooldown_until
IsAvailable(cooldown, m, t) == t >= CooldownGet(cooldown, m)

\* the filter loop: the models of models_to_try that are not cooling down,
\* in their order
AvailableModels(to_try, cooldown, t) ==
    SelectSeq(to_try, LAMBDA m : IsAvailable(cooldown, m, t))

\* Variant: a model that is still cooling down has its cooldown extended by
\* another period
MarkRateLimitedStacking(cooldown, m, t) ==
    [x \in DOMAIN cooldown \cup {m} |->
        IF x # m THEN cooldown[x]
        ELSE IF m \in DOMAIN cooldown /\ t < cooldown[m]
             THEN cooldown[m] + cooldown_duration
             ELSE t + cooldown_duration]

\* Variant: the mark replaces the map by the one entry
MarkRateLimitedAlone(cooldown, m, t) ==
    [x \in {m} |-> t + cooldown_duration]

\* self.model_cooldown[try_model] = time.time() + self.cooldown_duration
MarkRateLimited(cooldown, m, t) ==
    [x \in DOMAIN cooldown \cup {m} |->
        IF x = m THEN t + cooldown_duration ELSE cooldown[x]]

\* Variant: only the oldest cooldown is cleared
ResetOldest(cooldown) ==
    IF DOMAIN cooldown = {} THEN cooldown
    ELSE LET oldest == CHOOSE m \in DOMAIN cooldown :
                           \A x \in DOMAIN cooldown : cooldown[m] <= cooldown[x]
         IN  [x \in DOMAIN cooldown \ {oldest} |-> cooldown[x]]

\* self.model_cooldown.clear()
ResetAll(cooldown) == NoCooldown

\* Variant: the explicit model first, then the configured models
ModelsToTryExplicitFirst(model) ==
    IF model # None
    THEN <<model>> \o SelectSeq(local_models, LAMBDA m : m # model)
    ELSE local_models

\* models_to_try = [model] if model else self.local_models
ModelsToTry(model) == IF model # None THEN <<model>> ELSE local_models

\* Variant: the first five errors, errors[:5]
FirstFive(errors) ==
    IF Len(errors) <= 5 THEN errors ELSE SubSeq(errors, 1, 5)

\* errors[-5:]
LastFive(errors) ==
    IF Len(errors) <= 5 THEN errors
    ELSE SubSeq(errors, Len(errors) - 4, Len(errors))

\* url.split('/')[-1]
HostOf(url) == IF url = "http://h1" THEN "h1" ELSE "h2"

\* the readings time.time() can give
ClockReads == { t \in { now + d : d \in ClockSteps } : t <= MaxClock }

(***************************************************************************)
(* The frame of one generate invocation.                                   *)
(***************************************************************************)
IdleFrame ==
    [pc |-> "idle", model |-> None, retry_count |-> 0, current_time |-> 0,
     models_to_try |-> <<>>, available_models |-> <<>>, errors |-> <<>>,
     source |-> 0, url |-> 0, try_model |-> 0, attempt |-> 0,
     cooldown_until |-> 0, result |-> NoResult]

NoHist == [trace |-> <<>>, resets |-> 0, cooldown0 |-> NoCooldown]

\* a place in the nested loops of generate: the index into self.priority,
\* the index into [primary, fallback], the index into available_models and
\* the value of `attempt`
Place(pc, s, u, i, k) ==
    [pc |-> pc, source |-> s, url |-> u, try_model |-> i, attempt |-> k]

\* `for source in self.priority`, from index s on: the first entry that has
\* something to do
RECURSIVE EnterSource(_, _)
EnterSource(f, s) ==
    IF s > Len(priority) THEN Place("end", s, 0, 0, 0)
    ELSE IF priority[s] = "local" THEN Place("probe", s, 1, 0, 0)
    ELSE IF priority[s] = "cloud" /\ cloud_enabled /\ f.retry_count > 0
         THEN Place("cloud", s, 0, 0, 0)
    ELSE EnterSource(f, s + 1)

\* `for url in [primary, fallback]`, after the body for index u
AfterUrl(f, s, u) ==
    IF u < Len(local_urls) THEN Place("probe", s, u + 1, 0, 0)
    ELSE EnterSource(f, s + 1)

\* `for try_model in available_models`, after the body for index i
AfterModel(f, s, u, i) ==
    IF i < Len(f.available_models) THEN Place("attempt", s, u, i + 1, 0)
    ELSE AfterUrl(f, s, u)

\* after a successful probe: the first attempt, if the loops have any
AfterProbeOk(f, s, u) ==
    IF Len(f.available_models) > 0 /\ f.retry_count > 0
    THEN Place("attempt", s, u, 1, 0)
    ELSE AfterUrl(f, s, u)

\* Variant: no `continue`: the models are tried at the unreachable endpoint
AfterProbeDownNoContinue(f, s, u) == AfterProbeOk(f, s, u)

\* `continue` after a failed probe
AfterProbeDown(f, s, u) == AfterUrl(f, s, u)

\* Variant: the retry loop and the model loop swapped: every model is tried
\* once before any model is retried
AfterAttemptModelsFirst(f, s, u, i, k) ==
    IF i < Len(f.available_models) THEN Place("attempt", s, u, i + 1, k)
    ELSE IF k + 1 < f.retry_count THEN Place("attempt", s, u, 1, k + 1)
    ELSE AfterUrl(f, s, u)

\* Variant: one attempt more than retry_count
AfterAttemptOneMore(f, s, u, i, k) ==
    IF k < f.retry_count THEN Place("attempt", s, u, i, k + 1)
    ELSE AfterModel(f, s, u, i)

\* `for attempt in range(retry_count)`, after a failure that is not a
\* rate limit
AfterAttempt(f, s, u, i, k) ==
    IF k + 1 < f.retry_count THEN Place("attempt", s, u, i, k + 1)
    ELSE AfterModel(f, s, u, i)

\* the hosted loop, after a failure
AfterCloudAttempt(f, s, k) ==
    IF k + 1 < f.retry_count THEN Place("cloud", s, 0, 0, k + 1)
    ELSE EnterSource(f, s + 1)

\* return LLMResponse(success=False, error=f"...{'; '.join(errors[-5:])}")
AllFailed(errors) ==
    [NoResult EXCEPT !.error = <<"all services failed", LastFive(errors)>>]

\* the frame f moved to place p; falling off the loops returns the failure
Goto(f, p) ==
    IF p.pc = "end"
    THEN [f EXCEPT !.pc = "done", !.source = p.source, !.url = 0,
                   !.try_model = 0, !.attempt = 0,
                   !.result = AllFailed(f.errors)]
    ELSE [f EXCEPT !.pc = p.pc, !.source = p.source, !.url = p.url,
                   !.try_model = p.try_model, !.attempt = p.attempt]

\* Variant: the result is kept but the loops go on
ReturnKeepGoing(f, result) ==
    [f EXCEPT !.result = result]

\* return result
Return(f, result) ==
    [f EXCEPT !.pc = "done", !.result = result]

\* an exception leaves generate: no LLMResponse is returned
Raise(f) ==
    [f EXCEPT !.pc = "raised", !.result = NoResult]

\* Variant: a rate-limited model keeps its retry budget: no `break`
AfterRateLimitNoBreak(f, s, u, i, k) == AfterAttempt(f, s, u, i, k)

\* `break` out of the retry loop of a rate-limited model
AfterRateLimit(f, s, u, i, k) == AfterModel(f, s, u, i)

(***************************************************************************)
(* What an invocation has done so far (history, not program state): its    *)
(* probes and attempts in the order they were issued.                      *)
(***************************************************************************)
\* whether m is cooling down at time t: it has an entry and t is before it
Cooling(cooldown, m, t) == m \in DOMAIN cooldown /\ t < cooldown[m]

\* one probe or attempt: its place in the loops, the model, the reply, and
\* for a local attempt the model's cooldown entry when it was issued (0: none)
\* and whether the model was cooling down then
Event(kind, f, model, reply, before, cooling) ==
    [kind |-> kind, source |-> f.source, url |-> f.url,
     try_model |-> f.try_model, attempt |-> f.attempt, model |-> model,
     reply |-> reply, before |-> before, cooling |-> cooling]

Record(c, e) == hist' = [hist EXCEPT ![c].trace = Append(@, e)]

\* chunk_size: int = 6000, overlap: int = 500
default_chunk_size == 6000
default_overlap == 500

\* polish_transcript_chunked has not been called
NoPolish ==
    /\ transcript = <<>>
    /\ chunk_size = default_chunk_size
    /\ overlap = default_overlap
    /\ start = 0
    /\ chunks = <<>>
    /\ spans = <<>>
    /\ chunk_i = 0
    /\ polished_chunks = <<>>
    /\ merged = <<>>
    /\ calls = <<>>
    /\ polish_result = NoResult
    /\ polish_pc = "idle"

(***************************************************************************)
(* The steps of generate.                                                  *)
(***************************************************************************)
Init ==
    /\ \E cfg \in Configs :
          /\ priority = cfg.priority
          /\ local_models = cfg.local_models
          /\ local_urls = cfg.local_urls
          /\ cloud_enabled = cfg.cloud_enabled
    /\ model_cooldown = NoCooldown
    /\ now = 0
    /\ call = [c \in Callers |-> IdleFrame]
    /\ hist = [c \in Callers |-> NoHist]
    /\ NoPolish

\* generate(prompt, model, timeout, retry_count), up to the end of the
\* filter loop
Generate(c, model, retry_count) ==
    /\ call[c].pc = "idle"
    /\ \E t \in ClockReads :
         /\ now' = t
         /\ call' = [call EXCEPT ![c] =
               [IdleFrame EXCEPT
                  !.pc = "select", !.model = model,
                  !.retry_count = retry_count, !.current_time = t,
                  !.models_to_try = ModelsToTry(model),
                  !.available_models =
                      AvailableModels(ModelsToTry(model), model_cooldown, t)]]
    /\ hist' = [hist EXCEPT ![c] =
                  [NoHist EXCEPT !.cooldown0 = model_cooldown]]
    /\ UNCHANGED <<config, model_cooldown>>
    /\ UNCHANGED chunking

\* Variant: reset as soon as any candidate is cooling down
NeedsResetIfAnyCooling(f) ==
    Len(f.available_models) < Len(f.models_to_try)

\* `if not available_models and models_to_try`
NeedsReset(f) == f.available_models = <<>> /\ f.models_to_try # <<>>

\* the reset when every candidate is cooling down; then the loops are entered
Select(c) ==
    LET f == call[c]
        reset == NeedsReset(f)
        g == IF reset
             THEN [f EXCEPT !.available_models = f.models_to_try]
             ELSE f
    IN  /\ f.pc = "select"
        /\ model_cooldown' = IF reset THEN ResetAll(model_cooldown)
                                     ELSE model_cooldown
        /\ call' = [call EXCEPT ![c] = Goto(g, EnterSource(g, 1))]
        /\ hist' = [hist EXCEPT ![c].resets = IF reset THEN @ + 1 ELSE @]
        /\ UNCHANGED <<config, now>>
        /\ UNCHANGED chunking

\* `if not self.test_connection(url)`: one reachability probe
Probe(c, up) ==
    LET f == call[c]
        url == local_urls[f.url]
        g == [f EXCEPT !.errors = Append(@, <<"local", url, "cannot connect">>)]
    IN  /\ f.pc = "probe"
        /\ call' = [call EXCEPT ![c] =
              IF up THEN Goto(f, AfterProbeOk(f, f.source, f.url))
              ELSE Goto(g, AfterProbeDown(g, f.source, f.url))]
        /\ Record(c, Event("probe", f, None,
                           Reply(IF up THEN 200 ELSE 0, None, "tags"),
                           0, FALSE))
        /\ UNCHANGED <<config, model_cooldown, now>>
        /\ UNCHANGED chunking

\* one pass of the body of `for attempt in range(retry_count)` of the local
\* branch: the attempt and what follows from its result
LocalAttempt(c, reply) ==
    LET f == call[c]
        url == local_urls[f.url]
        m == f.available_models[f.try_model]
        result == GenerateLocal(reply, m)
        g == [f EXCEPT !.errors = Append(@, <<m, HostOf(url), result.error>>)]
        limited == ~result.success /\ Contains429(result.error)
    IN  /\ f.pc = "attempt"
        /\ Record(c, Event("local", f, m, reply,
                           CooldownGet(model_cooldown, m),
                           Cooling(model_cooldown, m, now)))
        /\ IF result.success
           THEN /\ call' = [call EXCEPT ![c] = Return(f, result)]
                /\ UNCHANGED <<model_cooldown, now>>
           ELSE IF limited
           THEN /\ \E t \in ClockReads :
                     /\ now' = t
                     /\ model_cooldown' = MarkRateLimited(model_cooldown, m, t)
                /\ call' = [call EXCEPT ![c] =
                      Goto(g, AfterRateLimit(g, f.source, f.url, f.try_model,
                                             f.attempt))]
           ELSE /\ call' = [call EXCEPT ![c] =
                      Goto(g, AfterAttempt(g, f.source, f.url, f.try_model,
                                           f.attempt))]
                /\ UNCHANGED <<model_cooldown, now>>
        /\ UNCHANGED config
        /\ UNCHANGED chunking

\* one pass of the body of `for attempt in range(retry_count)` of the hosted
\* branch
CloudAttempt(c, reply) ==
    LET f == call[c]
        result == GenerateCloud(reply)
        g == [f EXCEPT !.errors = Append(@, <<"cloud", "cloud", result.error>>)]
    IN  /\ f.pc = "cloud"
        /\ Record(c, Event("cloud", f, "cloud_model", reply, 0, FALSE))
        /\ call' = [call EXCEPT ![c] =
              IF CloudRaises(reply) THEN Raise(f)
              ELSE IF result.success THEN Return(f, result)
              ELSE Goto(g, AfterCloudAttempt(g, f.source, f.attempt))]
        /\ UNCHANGED <<config, model_cooldown, now>>
        /\ UNCHANGED chunking

\* the caller has taken the LLMResponse generate returned, or the exception
\* that left it: the frame is gone
Finish(c) ==
    /\ call[c].pc \in {"done", "raised"}
    /\ call' = [call EXCEPT ![c] = IdleFrame]
    /\ hist' = [hist EXCEPT ![c] = NoHist]
    /\ UNCHANGED <<config, model_cooldown, now>>
    /\ UNCHANGED chunking

\* one caller: the invocations of generate follow one another
Next ==
    \E c \in SeqCallers :
        \/ \E model \in Models \cup {None}, retry_count \in 0..MaxRetry :
               Generate(c, model, retry_count)
        \/ Select(c)
        \/ \E up \in BOOLEAN : Probe(c, up)
        \/ \E reply \in LocalReplies : LocalAttempt(c, reply)
        \/ \E reply \in CloudReplies : CloudAttempt(c, reply)
        \/ Finish(c)

Spec == Init /\ [][Next]_vars

(***************************************************************************)
(* The same steps for one configuration, with more kinds of reply.         *)
(***************************************************************************)
InitReplies ==
    /\ priority = OneModelConfig.priority
    /\ local_models = OneModelConfig.local_models
    /\ local_urls = OneModelConfig.local_urls
    /\ cloud_enabled = OneModelConfig.cloud_enabled
    /\ model_cooldown = NoCooldown
    /\ now = 0
    /\ call = [c \in Callers |-> IdleFrame]
    /\ hist = [c \in Callers |-> NoHist]
    /\ NoPolish

NextReplies ==
    \E c \in SeqCallers :
        \/ \E model \in Models \cup {None}, retry_count \in 0..MaxRetry :
               Generate(c, model, retry_count)
        \/ Select(c)
        \/ \E up \in BOOLEAN : Probe(c, up)
        \/ \E reply \in AllLocalReplies : LocalAttempt(c, reply)
        \/ \E reply \in AllCloudReplies : CloudAttempt(c, reply)
        \/ Finish(c)

SpecReplies == InitReplies /\ [][NextReplies]_vars

(***************************************************************************)
(* The Chunking Engine: the split loop of polish_transcript_chunked.       *)
(***************************************************************************)
Min(a, b) == IF a <= b THEN a ELSE b
Max(a, b) == IF a >= b THEN a ELSE b

\* a transcript of n characters; character i is written i, so that a slice
\* shows which characters it holds
Doc(n) == [i \in 1..n |-> i]

\* Python's s[a:b]: a negative index counts from the end, and an index
\* outside the string is clamped
PyIndex(n, a) == IF a < 0 THEN Max(a + n, 0) ELSE Min(a, n)
PySlice(s, a, b) == SubSeq(s, PyIndex(Len(s), a) + 1, PyIndex(Len(s), b))

\* the calls of polish_transcript_chunked: (len(transcript), chunk_size,
\* overlap), small ones and a transcript of 13000 characters with the
\* default chunk_size and overlap
SplitInputs ==
    { <<n, cs, ov>> : n \in 0..MaxLen, cs \in 0..MaxChunkSize,
                      ov \in (0 - 1)..MaxOverlap }
        \cup { <<13000, default_chunk_size, default_overlap>> }

InitSplit ==
    /\ priority = DefaultConfig.priority
    /\ local_models = DefaultConfig.local_models
    /\ local_urls = DefaultConfig.local_urls
    /\ cloud_enabled = DefaultConfig.cloud_enabled
    /\ model_cooldown = NoCooldown
    /\ now = 0
    /\ call = [c \in Callers |-> IdleFrame]
    /\ hist = [c \in Callers |-> NoHist]
    /\ \E in \in SplitInputs :
          /\ transcript = Doc(in[1])
          /\ chunk_size = in[2]
          /\ overlap = in[3]
    /\ start = 0
    /\ chunks = <<>>
    /\ spans = <<>>
    /\ chunk_i = 0
    /\ polished_chunks = <<>>
    /\ merged = <<>>
    /\ calls = <<>>
    /\ polish_result = NoResult
    /\ polish_pc = "split"

\* end = min(start + chunk_size, len(transcript))
SplitEnd(s) == Min(s + chunk_size, Len(transcript))

\* Variant: the next chunk starts where the last one ended
NextStartAtEnd(end) == end

\* start = end - overlap
NextStart(end) == end - overlap

\* Variant: no `break`: the loop ends by its condition only
SplitBreakNever(s) == FALSE

\* `if start >= len(transcript) - overlap`
SplitBreak(s) == s >= Len(transcript) - overlap

\* one pass of the body of `while start < len(transcript)`
SplitIteration ==
    LET end == SplitEnd(start)
    IN  /\ polish_pc = "split"
        /\ start < Len(transcript)
        /\ Len(chunks) < MaxSpans
        /\ chunks' = Append(chunks, PySlice(transcript, start, end))
        /\ spans' = Append(spans, <<start, end>>)
        /\ start' = NextStart(end)
        /\ polish_pc' = IF SplitBreak(start') THEN "chunks" ELSE "split"
        /\ UNCHANGED <<transcript, chunk_size, overlap>>
        /\ UNCHANGED <<chunk_i, polished_chunks, merged, calls, polish_result>>
        /\ UNCHANGED generation

\* `while start < len(transcript)` is false
SplitExit ==
    /\ polish_pc = "split"
    /\ ~(start < Len(transcript))
    /\ polish_pc' = "chunks"
    /\ UNCHANGED <<transcript, chunk_size, overlap, start, chunks, spans>>
    /\ UNCHANGED <<chunk_i, polished_chunks, merged, calls, polish_result>>
    /\ UNCHANGED generation

NextSplit == SplitIteration \/ SplitExit

SpecSplit == InitSplit /\ [][NextSplit]_vars

\* the split loop is straight-line code: while it has a next statement, it
\* runs it
SpecSplitFair == InitSplit /\ [][NextSplit]_vars /\ WF_vars(NextSplit)

(***************************************************************************)
(* The Polishing Pipeline: polish_transcript_chunked after the split.  Its *)
(* generate calls are invocations of the generate modelled above.          *)
(***************************************************************************)
\* retry_count: int = 2
default_retry_count == 2

\* "\n": a character no transcript of Doc holds
Newline == 0
\* "\n\n"
ParagraphBreak == <<Newline, Newline>>

\* the characters of a generated text: a generated character is written as
\* a negative number, a character of the transcript as its position
Characters(content) ==
    IF content = "text x" THEN <<0 - 1>>
    ELSE IF content = "text y" THEN <<0 - 2, 0 - 1>>
    ELSE <<>>

\* chunk_prompt_template.format(transcript=chunk)
ChunkPromptOf(chunk) == <<"chunk_prompt_template", chunk>>
\* format_prompt, the f-string around {merged}
FormatPromptOf(text) == <<"format_prompt", text>>

\* a generate call that has been issued and has not returned
Issued(prompt) ==
    [prompt |-> prompt, returned |-> FALSE, raised |-> FALSE,
     result |-> NoResult]
\* the last call issued is over: frame f holds what it returned, or an
\* exception left it
Returned(cs, f) ==
    [cs EXCEPT ![Len(cs)] = [@ EXCEPT !.returned = TRUE,
                                      !.raised = (f.pc = "raised"),
                                      !.result = f.result]]

\* merged = polished_chunks[0] if polished_chunks else ""; then
\* merged += "\n\n" + polished_chunks[i] for i in range(1, len(polished_chunks))
\* Variant: merged is the last chunk result alone
MergeLast(p) == IF p = <<>> THEN <<>> ELSE p[Len(p)]

RECURSIVE Merge(_)
Merge(p) ==
    IF p = <<>> THEN <<>>
    ELSE IF Len(p) = 1 THEN p[1]
    ELSE Merge(SubSeq(p, 1, Len(p) - 1)) \o ParagraphBreak \o p[Len(p)]

\* Variant: a chunk whose call failed is left out
PolishedDropFailed(result, chunk) ==
    IF result.success THEN <<Characters(result.content)>> ELSE <<>>

\* `if result.success: polished_chunks.append(result.content)
\*  else: polished_chunks.append(chunk)`: what is appended
Polished(result, chunk) ==
    IF result.success THEN <<Characters(result.content)>> ELSE <<chunk>>

\* Variant: a failed reassembly is passed on
FinalResultAsIs(final_result, text) ==
    [success |-> final_result.success,
     content |-> Characters(final_result.content),
     model |-> final_result.model, source |-> final_result.source]

\* `if final_result.success: return final_result
\*  else: return LLMResponse(success=True, content=merged,
\*                           model=final_result.model)`
FinalResult(final_result, text) ==
    IF final_result.success
    THEN [success |-> TRUE, content |-> Characters(final_result.content),
          model |-> final_result.model, source |-> final_result.source]
    ELSE [success |-> TRUE, content |-> text, model |-> final_result.model,
          source |-> None]

\* the calls of polish_transcript_chunked whose split ends
PolishInputs ==
    { in \in SplitInputs :
         in[1] <= MaxPolishLen /\ in[2] <= MaxPolishChunk
                               /\ 0 <= in[3] /\ in[3] < in[2] }

\* the replies the backends give while the pipeline runs
PolishLocalReplies ==
    { Reply(200, "text x", "json"), Reply(200, None, "json"),
      Reply(500, None, "plain") }
PolishCloudReplies ==
    { Reply(200, "text y", "json"), Reply(200, None, "json"),
      Reply(500, None, "plain") }

InitPolish ==
    /\ priority = OneModelConfig.priority
    /\ local_models = OneModelConfig.local_models
    /\ local_urls = OneModelConfig.local_urls
    /\ cloud_enabled = OneModelConfig.cloud_enabled
    /\ model_cooldown = NoCooldown
    /\ now = 0
    /\ call = [c \in Callers |-> IdleFrame]
    /\ hist = [c \in Callers |-> NoHist]
    /\ \E in \in PolishInputs :
          /\ transcript = Doc(in[1])
          /\ chunk_size = in[2]
          /\ overlap = in[3]
    /\ start = 0
    /\ chunks = <<>>
    /\ spans = <<>>
    /\ chunk_i = 0
    /\ polished_chunks = <<>>
    /\ merged = <<>>
    /\ calls = <<>>
    /\ polish_result = NoResult
    /\ polish_pc = "split"

\* `for i, chunk in enumerate(chunks)` has a next chunk:
\* prompt = chunk_prompt_template.format(transcript=chunk), and generate is
\* called
ChunkPrompt ==
    /\ polish_pc = "chunks"
    /\ chunk_i < Len(chunks)
    /\ calls' = Append(calls, Issued(ChunkPromptOf(chunks[chunk_i + 1])))
    /\ polish_pc' = "chunk_call"
    /\ UNCHANGED <<transcript, chunk_size, overlap, start, chunks, spans>>
    /\ UNCHANGED <<chunk_i, polished_chunks, merged, polish_result>>
    /\ UNCHANGED generation

\* self.ollama.generate(prompt, timeout=600): model and retry_count take
\* their defaults
PolishGenerate(c) ==
    /\ polish_pc \in {"chunk_call", "format_call"}
    /\ Generate(c, None, default_retry_count)

\* generate has returned or raised: the rest of the loop body
ChunkResult(c) ==
    LET f == call[c] IN
    /\ polish_pc = "chunk_call"
    /\ f.pc \in {"done", "raised"}
    /\ call' = [call EXCEPT ![c] = IdleFrame]
    /\ hist' = [hist EXCEPT ![c] = NoHist]
    /\ calls' = Returned(calls, f)
    /\ IF f.pc = "raised"
       THEN /\ polish_pc' = "raised"
            /\ UNCHANGED <<chunk_i, polished_chunks>>
       ELSE /\ polished_chunks' =
                  polished_chunks \o Polished(f.result, chunks[chunk_i + 1])
            /\ chunk_i' = chunk_i + 1
            /\ polish_pc' = "chunks"
    /\ UNCHANGED <<transcript, chunk_size, overlap, start, chunks, spans>>
    /\ UNCHANGED <<merged, polish_result>>
    /\ UNCHANGED <<config, model_cooldown, now>>

\* the loop over the chunks is over: merged is built, format_prompt is made
\* of it, and generate is called
FormatPrompt ==
    /\ polish_pc = "chunks"
    /\ ~(chunk_i < Len(chunks))
    /\ merged' = Merge(polished_chunks)
    /\ calls' = Append(calls, Issued(FormatPromptOf(merged')))
    /\ polish_pc' = "format_call"
    /\ UNCHANGED <<transcript, chunk_size, overlap, start, chunks, spans>>
    /\ UNCHANGED <<chunk_i, polished_chunks, polish_result>>
    /\ UNCHANGED generation

\* generate has returned or raised: polish_transcript_chunked returns, or
\* the exception leaves it
FormatResult(c) ==
    LET f == call[c] IN
    /\ polish_pc = "format_call"
    /\ f.pc \in {"done", "raised"}
    /\ call' = [call EXCEPT ![c] = IdleFrame]
    /\ hist' = [hist EXCEPT ![c] = NoHist]
    /\ calls' = Returned(calls, f)
    /\ IF f.pc = "raised"
       THEN /\ polish_pc' = "raised"
            /\ UNCHANGED polish_result
       ELSE /\ polish_result' = FinalResult(f.result, merged)
            /\ polish_pc' = "returned"
    /\ UNCHANGED <<transcript, chunk_size, overlap, start, chunks, spans>>
    /\ UNCHANGED <<chunk_i, polished_chunks, merged>>
    /\ UNCHANGED <<config, model_cooldown, now>>

NextPolish ==
    \/ SplitIteration
    \/ SplitExit
    \/ ChunkPrompt
    \/ FormatPrompt
    \/ \E c \in SeqCallers :
          \/ PolishGenerate(c)
          \/ Select(c)
          \/ \E up \in BOOLEAN : Probe(c, up)
          \/ \E reply \in PolishLocalReplies : LocalAttempt(c, reply)
          \/ \E reply \in PolishCloudReplies : CloudAttempt(c, reply)
          \/ ChunkResult(c)
          \/ FormatResult(c)

SpecPolish == InitPolish /\ [][NextPolish]_vars

(***************************************************************************)
(* Two invocations of generate at once on one OllamaClient: its fields are *)
(* shared and no lock guards them, so the statements of the two            *)
(* invocations interleave.  The reading of the clock (line 229) and the    *)
(* store into self.model_cooldown (line 230) are separate statements.      *)
(***************************************************************************)
ConcurrentReplies ==
    { Reply(200, "text x", "json"), Reply(429, None, "plain"),
      Reply(500, None, "plain") }

\* `if '429' in str(result.error)` will hold for this reply
MarksModel(reply, m) ==
    LET result == GenerateLocal(reply, m)
    IN  ~result.success /\ Contains429(result.error)

\* self.model_cooldown[try_model] = cooldown_until
StoreCooldown(cooldown, m, until) ==
    [x \in DOMAIN cooldown \cup {m} |-> IF x = m THEN until ELSE cooldown[x]]

InitConcurrent ==
    /\ priority = DefaultConfig.priority
    /\ local_models = DefaultConfig.local_models
    /\ local_urls = DefaultConfig.local_urls
    /\ cloud_enabled = DefaultConfig.cloud_enabled
    /\ model_cooldown = NoCooldown
    /\ now = 0
    /\ call = [c \in Callers |-> IdleFrame]
    /\ hist = [c \in Callers |-> NoHist]
    /\ NoPolish

\* a local attempt whose reply does not mark the model
PlainAttempt(c, reply) ==
    /\ call[c].pc = "attempt"
    /\ ~MarksModel(reply, call[c].available_models[call[c].try_model])
    /\ LocalAttempt(c, reply)

\* a local attempt answered with a rate limit, up to
\* cooldown_until = time.time() + self.cooldown_duration
RateLimitedAttempt(c, reply) ==
    LET f == call[c]
        url == local_urls[f.url]
        m == f.available_models[f.try_model]
        result == GenerateLocal(reply, m)
        g == [f EXCEPT !.errors = Append(@, <<m, HostOf(url), result.error>>)]
    IN  /\ f.pc = "attempt"
        /\ MarksModel(reply, m)
        /\ Record(c, Event("local", f, m, reply,
                           CooldownGet(model_cooldown, m),
                           Cooling(model_cooldown, m, now)))
        /\ \E t \in ClockReads :
             /\ now' = t
             /\ call' = [call EXCEPT ![c] =
                   [g EXCEPT !.pc = "mark",
                             !.cooldown_until = t + cooldown_duration]]
        /\ UNCHANGED <<config, model_cooldown>>
        /\ UNCHANGED chunking

\* self.model_cooldown[try_model] = cooldown_until, and `break`
MarkWrite(c) ==
    LET f == call[c]
        m == f.available_models[f.try_model]
        g == [f EXCEPT !.cooldown_until = 0]
    IN  /\ f.pc = "mark"
        /\ model_cooldown' = StoreCooldown(model_cooldown, m, f.cooldown_until)
        /\ call' = [call EXCEPT ![c] =
              Goto(g, AfterRateLimit(g, f.source, f.url, f.try_model,
                                     f.attempt))]
        /\ UNCHANGED <<config, now, hist>>
        /\ UNCHANGED chunking

NextConcurrent ==
    \E c \in Callers :
        \/ \E retry_count \in 1..MaxConcurrentRetry :
               Generate(c, None, retry_count)
        \/ Select(c)
        \/ \E up \in BOOLEAN : Probe(c, up)
        \/ \E reply \in ConcurrentReplies : PlainAttempt(c, reply)
        \/ \E reply \in ConcurrentReplies : RateLimitedAttempt(c, reply)
        \/ MarkWrite(c)
        \/ Finish(c)

SpecConcurrent == InitConcurrent /\ [][NextConcurrent]_vars

(***************************************************************************)
(* generate under priority lists that name a backend more than once, name  *)
(* an unknown backend, or name the disabled hosted backend.  The           *)
(* invocation is always scheduled: generate is straight-line code whose    *)
(* HTTP exchanges all carry a timeout.                                     *)
(***************************************************************************)
PriorityConfigs ==
    { Config(<<"local", "cloud", "local">>, <<"A", "B">>,
             <<"http://h1", "http://h2">>, TRUE),
      Config(<<"cloud", "other", "cloud">>, <<"A">>,
             <<"http://h1", "http://h2">>, TRUE),
      Config(<<"cloud", "local", "other">>, <<"A">>,
             <<"http://h1", "http://h2">>, FALSE) }

PriorityLocalReplies ==
    { Reply(200, "text x", "json"), Reply(500, None, "plain") }
PriorityCloudReplies ==
    { Reply(200, "text x", "json"), Reply(500, None, "plain") }

InitPriority ==
    /\ \E cfg \in PriorityConfigs :
          /\ priority = cfg.priority
          /\ local_models = cfg.local_models
          /\ local_urls = cfg.local_urls
          /\ cloud_enabled = cfg.cloud_enabled
    /\ model_cooldown = NoCooldown
    /\ now = 0
    /\ call = [c \in Callers |-> IdleFrame]
    /\ hist = [c \in Callers |-> NoHist]
    /\ NoPolish

NextPriority ==
    \E c \in SeqCallers :
        \/ \E model \in Models \cup {None}, retry_count \in 0..MaxRetry :
               Generate(c, model, retry_count)
        \/ Select(c)
        \/ \E up \in BOOLEAN : Probe(c, up)
        \/ \E reply \in PriorityLocalReplies : LocalAttempt(c, reply)
        \/ \E reply \in PriorityCloudReplies : CloudAttempt(c, reply)
        \/ Finish(c)

SpecPriority ==
    InitPriority /\ [][NextPriority]_vars /\ WF_vars(NextPriority)

(***************************************************************************)
(* Properties.                                                             *)
(***************************************************************************)
Trace(c) == hist[c].trace
IsAttempt(e) == e.kind \in {"local", "cloud"}
IsLocal(e) == e.kind = "local"
\* a local attempt answered with HTTP 429
RateLimited(e) == e.kind = "local" /\ e.reply.status = 429
Succeeded(e) == IsAttempt(e) /\ e.reply.status = 200
\* the endpoint an event addressed
UrlOf(e) == local_urls[e.url]
\* the same pass over the same entry of [primary, fallback]
SameVisit(d, e) == d.source = e.source /\ d.url = e.url
\* j is the first attempt after i in trace t
NextAttempt(t, i, j) ==
    /\ j > i
    /\ IsAttempt(t[j])
    /\ \A k \in (i + 1)..(j - 1) : ~IsAttempt(t[k])

\* C1: whenever a local generation attempt is issued for a model, the model
\* is not cooling down (it has no cooldown entry, or the time is not before
\* its cooldown_until), unless this invocation ran the reset.
C1_NoAttemptOnCoolingModel ==
    \A c \in Callers : \A i \in DOMAIN Trace(c) :
        IsLocal(Trace(c)[i]) =>
            (~Trace(c)[i].cooling \/ hist[c].resets > 0)

Key(e) == <<e.source, e.url, e.try_model, e.attempt>>
LexLess(a, b) ==
    \E k \in 1..4 : a[k] < b[k] /\ \A j \in 1..(k - 1) : a[j] = b[j]

\* C3: the attempts of one invocation are in lexicographic order of (position
\* of the backend in the priority list, endpoint position, position of the
\* model in the candidate list, retry number).
C3_AttemptsInLoopOrder ==
    \A c \in Callers :
        LET t == Trace(c) IN
        /\ \A i \in DOMAIN t :
              IsAttempt(t[i]) =>
                  /\ priority[t[i].source] = t[i].kind
                  /\ IsLocal(t[i]) =>
                        call[c].available_models[t[i].try_model] = t[i].model
        /\ \A i, j \in DOMAIN t :
              (i < j /\ IsAttempt(t[i]) /\ IsAttempt(t[j])) =>
                  LexLess(Key(t[i]), Key(t[j]))

\* C3 witness: an invocation that has retried the second model at the
\* fallback endpoint after attempts at the primary one, and then reached the
\* hosted backend
C3_Witness ==
    \E c \in Callers :
        LET t == Trace(c) IN
        /\ \E i \in DOMAIN t : IsLocal(t[i]) /\ t[i].url = 1 /\ t[i].attempt = 1
        /\ \E i \in DOMAIN t :
              IsLocal(t[i]) /\ t[i].url = 2 /\ t[i].try_model = 2
                            /\ t[i].attempt = 1
        /\ \E i \in DOMAIN t : t[i].kind = "cloud" /\ t[i].attempt = 1

\* C4: a successful attempt is the last thing its invocation does: generate
\* has returned that attempt's content, model and source, and the attempt
\* has not touched the model's cooldown entry.
C4_FirstSuccessReturns ==
    \A c \in Callers : \A i \in DOMAIN Trace(c) :
        LET e == Trace(c)[i]
            r == call[c].result
        IN  Succeeded(e) =>
              /\ i = Len(Trace(c))
              /\ call[c].pc = "done"
              /\ r.success /\ r.model = e.model /\ r.source = e.kind
              /\ r.content = (IF e.reply.generated = None THEN ""
                              ELSE e.reply.generated)
              /\ IsLocal(e) => CooldownGet(model_cooldown, e.model) = e.before

\* C4 witness: the first candidate succeeded at the primary endpoint on its
\* retry, with a second candidate, the fallback endpoint and the hosted
\* backend still untried
C4_Witness ==
    \E c \in Callers :
        LET t == Trace(c) IN
        /\ call[c].pc = "done" /\ call[c].result.success
        /\ Len(t) = 3
        /\ IsLocal(t[3]) /\ t[3].url = 1 /\ t[3].try_model = 1
        /\ t[3].attempt = 1
        /\ Len(call[c].available_models) = 2
        /\ priority = <<"local", "cloud">> /\ cloud_enabled

\* whether every candidate was cooling down when the invocation selected
AllCooling(c) ==
    \A k \in DOMAIN call[c].models_to_try :
        Cooling(hist[c].cooldown0, call[c].models_to_try[k],
                call[c].current_time)
\* the candidates that were not cooling down then, in their order
NotCooling(c) ==
    SelectSeq(call[c].models_to_try,
              LAMBDA m : ~Cooling(hist[c].cooldown0, m, call[c].current_time))

MarkStep(c) ==
    /\ Len(hist'[c].trace) = Len(hist[c].trace) + 1
    /\ RateLimited(hist'[c].trace[Len(hist'[c].trace)])
Last(t) == t[Len(t)]

\* C6: a rate limit at time t sets the model's cooldown_until to
\* t + cooldown_duration whatever its earlier value, and leaves every other
\* model's entry as it was.
C6_LastMarkWins ==
    [][\A c \in Callers :
          MarkStep(c) =>
              LET m == Last(hist'[c].trace).model IN
              /\ m \in DOMAIN model_cooldown'
              /\ model_cooldown'[m] = now' + cooldown_duration
              /\ \A x \in Models \ {m} :
                    /\ x \in DOMAIN model_cooldown' <=> x \in DOMAIN model_cooldown
                    /\ x \in DOMAIN model_cooldown =>
                          model_cooldown'[x] = model_cooldown[x]]_vars

\* C6 witness: a model whose entry was still in force has just been marked
\* again at a later time, and its entry is that time plus the duration,
\* while the other model keeps its entry
C6_Witness ==
    \E c \in Callers :
        /\ Trace(c) # <<>>
        /\ RateLimited(Last(Trace(c)))
        /\ LET e == Last(Trace(c)) IN
              /\ e.before > 0
              /\ now > e.before - cooldown_duration
              /\ now < e.before
              /\ model_cooldown[e.model] = now + cooldown_duration
              /\ \E x \in DOMAIN model_cooldown : x # e.model

\* C7: when the candidates have been filtered, a candidate is among the
\* available ones exactly if it has no cooldown entry or current_time is not
\* before its cooldown_until.
C7_AvailableIffNotCooling ==
    \A c \in Callers :
        call[c].pc = "select" =>
            LET f == call[c] IN
            \A k \in DOMAIN f.models_to_try :
                LET m == f.models_to_try[k] IN
                (\E j \in DOMAIN f.available_models : f.available_models[j] = m)
                    <=> (m \notin DOMAIN model_cooldown
                          \/ f.current_time >= model_cooldown[m])

\* C7 witness: at selection one candidate's cooldown ends exactly now and
\* it is available, and the other's ends later and it is filtered out
C7_Witness ==
    \E c \in Callers :
        LET f == call[c] IN
        /\ f.pc = "select"
        /\ f.models_to_try = <<"A", "B">>
        /\ DOMAIN model_cooldown = {"A", "B"}
        /\ \E m \in {"A", "B"} :
              /\ model_cooldown[m] = f.current_time
              /\ f.available_models = <<m>>
              /\ \A x \in {"A", "B"} \ {m} : model_cooldown[x] > f.current_time

C9_Begun(c) ==
    LET t == Trace(c) IN
    /\ priority = <<"local", "cloud">>
    /\ call[c].available_models = <<"A", "B">>
    /\ Len(t) >= 3
    /\ t[1].kind = "probe" /\ t[1].url = 1 /\ t[1].reply.status # 200
    /\ t[2].kind = "probe" /\ t[2].url = 2 /\ t[2].reply.status = 200
    /\ RateLimited(t[3]) /\ t[3].model = "A" /\ t[3].attempt = 0

\* C9: in that scenario A has a cooldown entry and is attempted exactly
\* once, B is attempted next, and when B succeeds generate returns the text
\* B's reply carries (the empty text if it carries none) and no hosted
\* attempt has been made.
C9_Scenario ==
    \A c \in Callers :
        LET t == Trace(c)
            r == call[c].result
        IN  C9_Begun(c) =>
              /\ "A" \in DOMAIN model_cooldown
              /\ Cardinality({i \in DOMAIN t :
                                 IsLocal(t[i]) /\ t[i].model = "A"}) = 1
              /\ Len(t) >= 4 =>
                    /\ IsLocal(t[4]) /\ t[4].model = "B"
                    /\ t[4].attempt = 0 /\ t[4].url = 2
              /\ \A j \in DOMAIN t :
                    (IsLocal(t[j]) /\ t[j].model = "B" /\ Succeeded(t[j])) =>
                        /\ call[c].pc = "done"
                        /\ r.success /\ r.model = "B" /\ r.source = "local"
                        /\ r.content = (IF t[j].reply.generated = None THEN ""
                                        ELSE t[j].reply.generated)
                        /\ \A k \in DOMAIN t : t[k].kind # "cloud"

\* C9 witness: the scenario, with two attempts allowed per target and the
\* hosted backend enabled, ended by B's success on its first attempt
C9_Witness ==
    \E c \in Callers :
        /\ C9_Begun(c)
        /\ call[c].retry_count = 2 /\ cloud_enabled
        /\ Len(Trace(c)) = 4
        /\ Succeeded(Trace(c)[4]) /\ Trace(c)[4].reply.generated = "text y"
        /\ call[c].pc = "done" /\ call[c].result.content = "text y"

\* a failed reachability probe
ProbeDown(e) == e.kind = "probe" /\ e.reply.status # 200
\* the failure notes among the errors, and the failed probes of a trace
Notes(errors) == SelectSeq(errors, LAMBDA x : x[1] = "local")
ProbesDown(t) == SelectSeq(t, ProbeDown)

\* C10 as stated: an endpoint whose probe failed gets no generation attempt
\* in the invocation, has exactly one failure note, is not probed again, and
\* the invocation goes on with the next endpoint or backend.
C10_AsStated ==
    \A c \in Callers : \A i \in DOMAIN Trace(c) :
        LET t == Trace(c) IN
        ProbeDown(t[i]) =>
            /\ \A j \in DOMAIN t : IsLocal(t[j]) => UrlOf(t[j]) # UrlOf(t[i])
            /\ \A j \in DOMAIN t :
                  (t[j].kind = "probe" /\ UrlOf(t[j]) = UrlOf(t[i])) => j = i
            /\ Cardinality({k \in DOMAIN call[c].errors :
                               /\ call[c].errors[k][1] = "local"
                               /\ call[c].errors[k][2] = UrlOf(t[i])}) = 1
            /\ i < Len(t) =>
                  \/ t[i + 1].source > t[i].source
                  \/ /\ t[i + 1].kind = "probe"
                     /\ t[i + 1].source = t[i].source
                     /\ t[i + 1].url = t[i].url + 1

\* C10 (amended): in a pass over the endpoint list, an entry whose probe
\* failed gets no generation attempt and no second probe in that pass and one
\* failure note per failed probe, in order; the invocation goes on with the
\* next entry of the list, or with the next backend after the last entry.
C10_UnreachableSkipped ==
    \A c \in Callers :
        LET t == Trace(c)
            down == ProbesDown(t)
            notes == Notes(call[c].errors)
        IN  /\ Len(notes) = Len(down)
            /\ \A k \in DOMAIN down :
                  notes[k] = <<"local", UrlOf(down[k]), "cannot connect">>
            /\ \A i \in DOMAIN t :
                  ProbeDown(t[i]) =>
                      /\ \A j \in DOMAIN t :
                            IsLocal(t[j]) => ~SameVisit(t[j], t[i])
                      /\ \A j \in DOMAIN t :
                            (t[j].kind = "probe" /\ SameVisit(t[j], t[i]))
                                => j = i
                      /\ i < Len(t) =>
                            \/ t[i + 1].source > t[i].source
                            \/ /\ t[i + 1].kind = "probe"
                               /\ t[i + 1].source = t[i].source
                               /\ t[i + 1].url = t[i].url + 1

\* C10 witness: the primary endpoint's probe failed, and the invocation has
\* gone on to attempt a model at the reachable fallback endpoint, which has
\* another URL
C10_Witness ==
    \E c \in Callers :
        LET t == Trace(c) IN
        /\ Len(t) = 3
        /\ ProbeDown(t[1]) /\ t[1].url = 1
        /\ t[2].kind = "probe" /\ t[2].url = 2 /\ t[2].reply.status = 200
        /\ IsLocal(t[3]) /\ t[3].url = 2
        /\ UrlOf(t[3]) # UrlOf(t[1])
        /\ Len(Notes(call[c].errors)) = 1

\* the same target in the same visit: the same pass over the same endpoint
\* entry and the same candidate (or the hosted backend in the same pass)
SameTarget(d, e) ==
    d.kind = e.kind /\ SameVisit(d, e) /\ d.try_model = e.try_model
\* the attempts trace t holds for the target of e in that visit
VisitOf(t, e) == {j \in DOMAIN t : IsAttempt(t[j]) /\ SameTarget(t[j], e)}
\* an attempt that failed, and one that failed otherwise than by HTTP 429
Failed(e) == IsAttempt(e) /\ ~RespOk(e.reply)
OtherFailure(e) == Failed(e) /\ e.reply.status # 429
\* the invocation of c has left the visit of e
VisitOver(c, e) ==
    ~(/\ call[c].pc \in {"attempt", "cloud"}
      /\ call[c].source = e.source /\ call[c].url = e.url
      /\ call[c].try_model = e.try_model)

\* C11: no target gets more than retry_count attempts in a visit; a local
\* (endpoint, model) visit that is over and whose attempts all failed
\* otherwise than by HTTP 429 had exactly retry_count attempts, and the next
\* candidate, if there is one, was attempted next; a hosted visit that is
\* over and whose attempts all failed had exactly retry_count attempts.
C11_ExactlyRetryCount ==
    \A c \in Callers : \A i \in DOMAIN Trace(c) :
        LET t == Trace(c)
            v == VisitOf(t, t[i])
            f == call[c]
        IN  IsAttempt(t[i]) =>
              /\ Cardinality(v) <= f.retry_count
              /\ (IsLocal(t[i]) /\ VisitOver(c, t[i])
                     /\ \A j \in v : OtherFailure(t[j])) =>
                    /\ Cardinality(v) = f.retry_count
                    /\ (t[i].attempt = f.retry_count - 1
                          /\ t[i].try_model < Len(f.available_models)
                          /\ i < Len(t)) =>
                          /\ IsLocal(t[i + 1]) /\ SameVisit(t[i + 1], t[i])
                          /\ t[i + 1].try_model = t[i].try_model + 1
                          /\ t[i + 1].attempt = 0
              /\ (t[i].kind = "cloud" /\ VisitOver(c, t[i])
                     /\ \A j \in v : Failed(t[j])) =>
                    Cardinality(v) = f.retry_count

\* generate has returned the aggregated failure to caller c
ReturnedFailure(c) == call[c].pc = "done" /\ ~call[c].result.success
\* the error excerpts of the returned failure's reason
Excerpts(c) == call[c].result.error[2]
\* what generate records for a failed probe or a failed attempt
Recorded(e) ==
    IF e.kind = "probe" THEN <<"local", UrlOf(e), "cannot connect">>
    ELSE IF e.kind = "local"
    THEN <<e.model, HostOf(UrlOf(e)), HttpError(e.reply, "local timeout")>>
    ELSE <<"cloud", "cloud", HttpError(e.reply, "cloud timeout")>>
RECURSIVE RecordedAll(_)
RecordedAll(t) ==
    IF t = <<>> THEN <<>>
    ELSE LET rest == RecordedAll(SubSeq(t, 1, Len(t) - 1))
             e == t[Len(t)]
         IN  IF ProbeDown(e) \/ Failed(e) THEN Append(rest, Recorded(e))
             ELSE rest
\* the per-attempt errors only
AttemptErrors(t) == RecordedAll(SelectSeq(t, IsAttempt))
PairwiseDistinct(q) == \A i, j \in DOMAIN q : i # j => q[i] # q[j]

\* C12 as stated: a returned failure's reason holds between one and five
\* excerpts, they are the most recent per-attempt errors in the order they
\* occurred, and no two of them are equal.
C12_AsStated ==
    \A c \in Callers :
        (ReturnedFailure(c) /\ \E i \in DOMAIN Trace(c) : IsAttempt(Trace(c)[i])) =>
            /\ Len(Excerpts(c)) \in 1..5
            /\ Excerpts(c) = LastFive(AttemptErrors(Trace(c)))
            /\ PairwiseDistinct(Excerpts(c))

\* C12 (amended): a returned failure's reason holds the last five entries
\* (all of them if there are fewer) of what the invocation recorded, failed
\* probes' notes and failed attempts' errors alike, in the order they
\* occurred; there is at least one when a probe or an attempt failed, and
\* equal entries are not merged.
C12_LastFiveRecorded ==
    \A c \in Callers :
        ReturnedFailure(c) =>
            LET all == RecordedAll(Trace(c)) IN
            /\ call[c].result.error[1] = "all services failed"
            /\ Len(Excerpts(c)) = (IF Len(all) < 5 THEN Len(all) ELSE 5)
            /\ \A k \in DOMAIN Excerpts(c) :
                  Excerpts(c)[k] = all[Len(all) - Len(Excerpts(c)) + k]

\* C12 witness: a failure returned after more than five recorded entries,
\* whose five excerpts hold a failed probe's note and two equal errors
C12_Witness ==
    \E c \in Callers :
        /\ ReturnedFailure(c)
        /\ Len(call[c].errors) > 5
        /\ Len(Excerpts(c)) = 5
        /\ \E k \in 1..5 : Excerpts(c)[k][1] = "local"
        /\ ~PairwiseDistinct(Excerpts(c))

\* an attempt answered with an ok status and a body without the generated
\* text
Malformed(e) == IsAttempt(e) /\ RespOk(e.reply) /\ e.reply.generated = None

\* C13: a malformed reply is a failed attempt: no exception leaves generate,
\* the attempt is not what generate returns as a success, and it is followed
\* by the target's next attempt while the retry budget lasts; every
\* invocation that has ended returned a success with content or the
\* aggregated failure.
C13_MalformedIsFailure ==
    \A c \in Callers :
        LET t == Trace(c)
            f == call[c]
        IN  /\ f.pc # "raised"
            /\ f.pc = "done" =>
                  \/ f.result.success /\ f.result.content \notin {None, ""}
                  \/ ~f.result.success
                       /\ f.result.error[1] = "all services failed"
            /\ \A i \in DOMAIN t :
                  Malformed(t[i]) =>
                      /\ ~(f.pc = "done" /\ f.result.success /\ i = Len(t))
                      /\ (t[i].attempt + 1 < f.retry_count /\ i < Len(t)) =>
                            /\ SameTarget(t[i + 1], t[i])
                            /\ t[i + 1].attempt = t[i].attempt + 1

\* a hosted attempt answered with HTTP 429
CloudRateLimited(e) == e.kind = "cloud" /\ e.reply.status = 429

\* C14: after a hosted attempt is answered with HTTP 429, the invocation
\* neither makes nor prepares another hosted attempt in that pass, and the
\* cooldown map has an entry for the hosted model.
C14_HostedRateLimit ==
    \A c \in Callers : \A i \in DOMAIN Trace(c) :
        LET t == Trace(c) IN
        CloudRateLimited(t[i]) =>
            /\ \A j \in (i + 1)..Len(t) :
                  ~(t[j].kind = "cloud" /\ t[j].source = t[i].source)
            /\ ~(call[c].pc = "cloud" /\ call[c].source = t[i].source)
            /\ t[i].model \in DOMAIN model_cooldown

\* the client was constructed from the empty configuration
FromEmptyConfig ==
    config = <<DefaultConfig.priority, DefaultConfig.local_models,
               DefaultConfig.local_urls, DefaultConfig.cloud_enabled>>

C16_ExplicitModelOnly ==
    \A c \in Callers :
        LET f == call[c] IN
        (f.pc # "idle" /\ f.model # None) =>
            /\ f.models_to_try = <<f.model>>
            /\ f.available_models \in {<<>>, <<f.model>>}
            /\ f.pc \in {"probe", "attempt", "cloud", "done", "raised"} =>
                  f.available_models = <<f.model>>
            /\ \A i \in DOMAIN Trace(c) :
                  IsLocal(Trace(c)[i]) => Trace(c)[i].model = f.model

\* C16 witness: with models A and B configured, an invocation with the
\* explicit model B has seen B fail twice at each endpoint, and has gone on
\* to the hosted backend without an attempt of A
C16_Witness ==
    \E c \in Callers :
        /\ local_models = <<"A", "B">>
        /\ call[c].model = "B" /\ call[c].retry_count = 2
        /\ call[c].pc = "cloud"
        /\ Cardinality({i \in DOMAIN Trace(c) : OtherFailure(Trace(c)[i])}) = 4

\* the split is over
SplitDone == polish_pc = "chunks"
\* span k of the split covers the whole transcript
CoversAll(k) ==
    /\ spans[k] = <<0, Len(transcript)>>
    /\ chunks[k] = transcript

Chars(k) == {chunks[k][i] : i \in DOMAIN chunks[k]}
SpanLen(k) == spans[k][2] - spans[k][1]
\* the split has come to an end, or has not yet made more iterations than
\* the transcript has characters
SplitEnds == SplitDone \/ (Len(spans) <= Len(transcript) /\ ENABLED NextSplit)

\* C18: for a transcript longer than chunk_size the split comes to an end,
\* each span starts overlap characters before the end of the span before it
\* and shares exactly overlap characters with it, and the spans together
\* hold every character of the transcript.
C18_CoverageAndOverlap ==
    Len(transcript) > chunk_size =>
        /\ SplitEnds
        /\ \A k \in 1..(Len(spans) - 1) :
              /\ spans[k + 1][1] = spans[k][2] - overlap
              /\ Cardinality(Chars(k) \cap Chars(k + 1)) = overlap
        /\ SplitDone =>
              UNION {Chars(k) : k \in DOMAIN chunks} = 1..Len(transcript)

\* C19: for every transcript, chunk_size and overlap, the spans start at
\* strictly increasing offsets, no span and no chunk is longer than
\* chunk_size, and every span but the final one has chunk_size characters.
C19_SpanShape ==
    /\ \A k \in 1..(Len(spans) - 1) : spans[k][1] < spans[k + 1][1]
    /\ \A k \in DOMAIN spans :
          /\ SpanLen(k) <= chunk_size
          /\ Len(chunks[k]) <= chunk_size
          /\ (k < Len(spans) \/ ~SplitDone) =>
                SpanLen(k) = chunk_size /\ Len(chunks[k]) = chunk_size

\* span number k (from 0) of the closed form
FormulaSpan(k) ==
    <<k * (chunk_size - overlap),
      Min(k * (chunk_size - overlap) + chunk_size, Len(transcript))>>

\* C20: the split comes to an end; span number k (from 0) is
\* [k*(chunk_size-overlap), min(k*(chunk_size-overlap)+chunk_size, len));
\* the last span, and no span before it, ends at len; and for 13000
\* characters, chunk_size 6000 and overlap 500 the spans are [0,6000),
\* [5500,11500) and [11000,13000).
C20_SpanFormula ==
    /\ SplitEnds
    /\ \A k \in DOMAIN spans :
          /\ spans[k] = FormulaSpan(k - 1)
          /\ chunks[k] = SubSeq(transcript, spans[k][1] + 1, spans[k][2])
          /\ k < Len(spans) => spans[k][2] # Len(transcript)
    /\ SplitDone =>
          /\ spans # <<>>
          /\ spans[Len(spans)][2] = Len(transcript)
    /\ (SplitDone /\ Len(transcript) = 13000 /\ chunk_size = 6000
           /\ overlap = 500) =>
          spans = << <<0, 6000>>, <<5500, 11500>>, <<11000, 13000>> >>

\* the pipeline's generate call for chunk i, once it is over
ChunkCall(i) == calls[i]
\* the texts of a sequence in order, a paragraph break between neighbours
RECURSIVE Joined(_)
Joined(texts) ==
    IF texts = <<>> THEN <<>>
    ELSE IF Len(texts) = 1 THEN Head(texts)
    ELSE Head(texts) \o ParagraphBreak \o Joined(Tail(texts))
\* the loop over the chunks is over and merged is built
MergedBuilt == polish_pc \in {"format_call", "returned"}
AllChunkCallsFailed ==
    \A i \in 1..Len(chunks) : ~ChunkCall(i).result.success

FormatCall == calls[Len(chunks) + 1]
PolishReturned == polish_pc = "returned"

\* C22: if the reassembly call fails, the pipeline returns the raw
\* concatenated output unchanged as its content, with success; if the
\* reassembly call succeeds, its result is returned.
C22_ReassemblyFallback ==
    PolishReturned =>
        /\ Len(calls) = Len(chunks) + 1
        /\ FormatCall.returned
        /\ IF FormatCall.result.success
           THEN /\ polish_result.success
                /\ polish_result.content =
                      Characters(FormatCall.result.content)
                /\ polish_result.model = FormatCall.result.model
                /\ polish_result.source = FormatCall.result.source
           ELSE /\ polish_result.success
                /\ polish_result.content = Joined(polished_chunks)
                /\ polish_result.content = merged

\* the reassembly of two chunk results failed and their concatenation was
\* returned
C22_Witness ==
    /\ PolishReturned
    /\ ~FormatCall.result.success
    /\ Len(polished_chunks) = 2
    /\ polish_result.success
    /\ polish_result.content =
          polished_chunks[1] \o ParagraphBreak \o polished_chunks[2]

\* the step is the reset of caller c
ResetStep(c) == hist'[c].resets = hist[c].resets + 1
\* no entry is replaced by an older timestamp
NoOlderTimestamp ==
    \A m \in DOMAIN model_cooldown :
        m \in DOMAIN model_cooldown' => model_cooldown'[m] >= model_cooldown[m]
\* the reset of caller c erases only what stood in the map when c's filter
\* loop read it
ErasesOnlyWhatItSaw(c) ==
    ResetStep(c) =>
        \A m \in DOMAIN model_cooldown :
            /\ m \in DOMAIN hist[c].cooldown0
            /\ model_cooldown[m] = hist[c].cooldown0[m]

\* C23: with two generate calls running at once on one cooldown map no
\* rate-limit update is lost: no step replaces an entry by an older
\* timestamp, and a reset erases no entry written after the resetting call
\* decided on it.
C23_NoLostUpdate ==
    [][/\ NoOlderTimestamp
       /\ \A c \in Callers : ErasesOnlyWhatItSaw(c)]_vars

\* the step writes a cooldown entry for m: a new one, or another value
EntryWritten(m) ==
    /\ m \in DOMAIN model_cooldown'
    /\ (m \in DOMAIN model_cooldown => model_cooldown'[m] # model_cooldown[m])

\* C24: a model receives a cooldown entry only when a local attempt for it
\* was answered with the HTTP status 429; an attempt that failed in another
\* way (no answer, or another HTTP error whatever its body says) writes no
\* entry and is followed by the next retry of the same model at the same
\* endpoint while retries remain.
C24_OnlyStatus429Marks ==
    [][/\ \A m \in Models :
             EntryWritten(m) =>
                 \E c \in Callers :
                     MarkStep(c) /\ Last(hist'[c].trace).model = m
       /\ \A c \in Callers : \A i \in DOMAIN Trace(c) :
             LET t == Trace(c) IN
             (/\ IsLocal(t[i]) /\ OtherFailure(t[i])
              /\ t[i].attempt < call[c].retry_count - 1
              /\ i < Len(t)) =>
                 /\ IsLocal(t[i + 1]) /\ SameTarget(t[i + 1], t[i])
                 /\ t[i + 1].attempt = t[i].attempt + 1]_vars

\* a local attempt that generate took for rate limited (line 228)
TakenAsRateLimited(e) == IsLocal(e) /\ MarksModel(e.reply, e.model)
\* no attempt of c's invocation has been taken for rate limited so far
NoRateLimit(c) == \A i \in DOMAIN Trace(c) : ~TakenAsRateLimited(Trace(c)[i])
\* the step is a local attempt of caller c that generate takes for rate
\* limited
RateLimitStep(c) ==
    /\ Len(hist'[c].trace) = Len(hist[c].trace) + 1
    /\ TakenAsRateLimited(Last(hist'[c].trace))
\* the step removes an entry from the map
EntryRemoved == \E m \in DOMAIN model_cooldown : m \notin DOMAIN model_cooldown'

SplitOver ==
    polish_pc \in {"chunks", "chunk_call", "format_call", "returned", "raised"}
\* an invocation of generate is running
GenerateRunning == \E c \in Callers : call[c].pc # "idle"

\* C26: for a transcript split into N chunks the pipeline issues N + 1
\* generate calls one after another: a call is issued only when every
\* earlier call is over, call i carries chunk i, and the reassembly call is
\* issued after the N chunk calls have returned and carries the
\* concatenation of the N chunk results; the pipeline returns after exactly
\* N + 1 calls.
C26_CallsInSequence ==
    SplitOver =>
        /\ Len(calls) <= Len(chunks) + 1
        /\ \A k \in 1..(Len(calls) - 1) :
              ChunkCall(k).returned /\ ~ChunkCall(k).raised
        /\ GenerateRunning => (calls # <<>> /\ ~Last(calls).returned)
        /\ \A k \in 1..Len(calls) :
              k <= Len(chunks) => ChunkCall(k).prompt = ChunkPromptOf(chunks[k])
        /\ Len(calls) = Len(chunks) + 1 =>
              /\ Len(polished_chunks) = Len(chunks)
              /\ FormatCall.prompt = FormatPromptOf(Joined(polished_chunks))
        /\ PolishReturned =>
              /\ Len(calls) = Len(chunks) + 1
              /\ \A k \in 1..Len(calls) : ChunkCall(k).returned

\* C26 witness: the reassembly call of a transcript of three chunks is
\* running as the fourth call, on results of which one is generated and
\* one is the chunk itself
C26_Witness ==
    /\ polish_pc = "format_call"
    /\ GenerateRunning
    /\ Len(chunks) = 3 /\ Len(calls) = 4
    /\ ChunkCall(1).result.success
    /\ ~ChunkCall(2).result.success
    /\ FormatCall.prompt =
          FormatPromptOf(polished_chunks[1] \o ParagraphBreak
                            \o chunks[2] \o ParagraphBreak
                            \o polished_chunks[3])

\* how many entries of the priority list name backend s
Occurrences(s) == Cardinality({i \in DOMAIN priority : priority[i] = s})
\* how many events of a kind the invocation of c has issued
Issues(c, kind) ==
    Cardinality({i \in DOMAIN Trace(c) : Trace(c)[i].kind = kind})
\* the invocation of c is past its selection: its candidates are settled
Selected(c) == call[c].pc \in {"probe", "attempt", "cloud", "done", "raised"}
\* the hosted attempts one entry 'cloud' allows
HostedBudget(c) == IF cloud_enabled THEN call[c].retry_count ELSE 0

C27_Bounds ==
    \A c \in Callers :
        Selected(c) =>
            /\ Issues(c, "local")
                  <= Occurrences("local") * 2
                        * Len(call[c].available_models) * call[c].retry_count
            /\ Issues(c, "probe") <= 2 * Occurrences("local")
            /\ Issues(c, "cloud") <= Occurrences("cloud") * HostedBudget(c)
            /\ \A i \in DOMAIN Trace(c) :
                  priority[Trace(c)[i].source] \in {"local", "cloud"}

ExplicitModelCooling(c) ==
    /\ call[c].model # None
    /\ Cooling(hist[c].cooldown0, call[c].model, call[c].current_time)

PolishOver == polish_pc \in {"returned", "raised"}

\* C29: polish_transcript_chunked never fails: whatever the outcomes of
\* its chunk calls and of its reassembly call, it returns a result with
\* success = true whose content is the reassembly output or the
\* concatenated chunk results.
C29_NeverFails ==
    PolishOver =>
        /\ PolishReturned
        /\ polish_result.success
        /\ \/ /\ FormatCall.result.success
              /\ polish_result.content = Characters(FormatCall.result.content)
           \/ polish_result.content = Joined(polished_chunks)

\* 0 <= overlap < chunk_size
ValidSplit == 0 <= overlap /\ overlap < chunk_size
\* ceil(a / b) for b > 0
Ceil(a, b) == (a + b - 1) \div b
\* the end of span k
SpanEnd(k) == spans[k][2]

\* what C30 says of the spans appended so far and of their number
C30_Spans ==
    ValidSplit =>
        /\ \A k \in 2..Len(spans) : SpanEnd(k) > SpanEnd(k - 1)
        /\ (SplitDone /\ Len(transcript) > chunk_size) =>
              Len(spans) = 1 + Ceil(Len(transcript) - chunk_size,
                                    chunk_size - overlap)

\* C30: whenever 0 <= overlap < chunk_size the split loop ends, for every
\* length of the transcript, 0 included; each span after the first ends
\* strictly beyond the end of the span before it; and for a transcript
\* longer than chunk_size the number of spans is
\* 1 + ceil((len - chunk_size) / (chunk_size - overlap)).
C30_SplitTerminates ==
    /\ []C30_Spans
    /\ ValidSplit ~> SplitDone

\* C30 witness: a split with an overlap has ended with four spans, the
\* number the formula gives
C30_Witness ==
    /\ SplitDone /\ ValidSplit
    /\ overlap > 0
    /\ Len(transcript) > chunk_size
    /\ Len(spans) = 4
    /\ Len(spans) = 1 + Ceil(Len(transcript) - chunk_size, chunk_size - overlap)

====
